---- MODULE Spec2Model ----
(***************************************************************************)
(* The request-admission pipeline of the Lovable MCP server                *)
(* (src/src/server/server.py): the per-key sliding-window RateLimiter and  *)
(* the three aiohttp handlers of LovableMCPServer.                         *)
(***************************************************************************)
EXTENDS Integers, Sequences, FiniteSets, Bags, TLC

(* ------------------------------ bounds --------------------------------- *)
\* largest requests_per_minute a RateLimiter is constructed with
MaxLimit == 2
\* clock readings lie at offsets 0..MaxTick after an epoch
MaxTick == 1
\* number of direct is_rate_limited calls that are logged
MaxCalls == 4
\* number of requests suspended in `await request.json()` at the same time
MaxInflight == 2

(* ------------------------- program constants --------------------------- *)
\* minute_ago = now - 60
Window == 60

\* the values time.time() returns: around two instants one window apart
Epochs == {0, Window}
Times == {e + o : e \in Epochs, o \in 0..MaxTick}
Limits == 1..MaxLimit
Keys == {"k1", "k2"}

VARIABLES
    requests_per_minute,  \* RateLimiter.requests_per_minute
    requests,             \* RateLimiter.requests: api_key -> list of timestamps
    clock,                \* the last value read from time.time()
    log,                  \* the direct calls of is_rate_limited, in order
    inflight,             \* bag of admitted requests waiting for their body
    last,                 \* the response being sent, or NoResponse
    sent,                 \* the requests a test client has sent so far
    seen,                 \* the statuses the test client has collected
    memo                  \* a response a client has kept, or NoResponse

vars == <<requests_per_minute, requests, clock, log, inflight, last, sent,
          seen, memo>>

(* ----------------------------- RateLimiter ------------------------------ *)
\* self.requests[api_key] on a defaultdict(list)
WindowOf(reqs, api_key) ==
    IF api_key \in DOMAIN reqs THEN reqs[api_key] ELSE <<>>

PruneWindowTooShort(w, minute_ago) ==
    SelectSeq(w, LAMBDA t : t > minute_ago + 1)

PruneKeepsOld(w, minute_ago) == SelectSeq(w, LAMBDA t : t < minute_ago)

PruneKeepsBoundary(w, minute_ago) ==
    SelectSeq(w, LAMBDA t : t >= minute_ago)

\* [t for t in self.requests[api_key] if t > minute_ago]
Prune(w, minute_ago) ==
    SelectSeq(w, LAMBDA t : t > minute_ago)

OverLimitOffByOne(n, limit) ==
    n > limit

\* len(self.requests[api_key]) >= self.requests_per_minute
OverLimit(n, limit) ==
    n >= limit

RejectRecords(w, now) ==
    Append(w, now)

\* return True: a limited call leaves the pruned window as it is
Reject(w, now) ==
    w

RecordAtFront(w, now) == <<now>> \o w

RecordNothing(w, now) ==
    w

\* self.requests[api_key].append(now)
Record(w, now) ==
    Append(w, now)

StoreDropsOtherKeys(reqs, api_key, w) == [k \in {api_key} |-> w]

StoreForEveryKey(reqs, api_key, w) ==
    [k \in DOMAIN reqs \cup {api_key} |-> w]

\* self.requests[api_key] = ...
Store(reqs, api_key, w) ==
    [k \in DOMAIN reqs \cup {api_key} |-> IF k = api_key THEN w ELSE reqs[k]]

\* RateLimiter.is_rate_limited: the returned flag and the mapping it leaves
is_rate_limited(reqs, api_key, now, limit) ==
    LET minute_ago == now - Window
        pruned == Prune(WindowOf(reqs, api_key), minute_ago)
    IN  IF OverLimit(Len(pruned), limit)
        THEN [limited |-> TRUE,
              requests |-> Store(reqs, api_key, Reject(pruned, now))]
        ELSE [limited |-> FALSE,
              requests |-> Store(reqs, api_key, Record(pruned, now))]

NoResponse == [status |-> 0]

Init ==
    /\ requests_per_minute \in Limits
    /\ requests = [k \in {} |-> <<>>]
    /\ clock = 0
    /\ log = <<>>
    /\ inflight = EmptyBag
    /\ last = NoResponse
    /\ sent = 0
    /\ seen = {}
    /\ memo = NoResponse

\* a direct call of RateLimiter.is_rate_limited(api_key); time.time() is the
\* wall clock and may return any value, also one below the previous reading
Call(api_key, now) ==
    /\ Len(log) < MaxCalls
    /\ LET r == is_rate_limited(requests, api_key, now, requests_per_minute)
       IN  /\ requests' = r.requests
           /\ log' = Append(log, [key |-> api_key, now |-> now,
                                  limited |-> r.limited,
                                  before |-> WindowOf(requests, api_key),
                                  after |-> r.requests[api_key],
                                  tracked |-> DOMAIN requests])
    /\ clock' = now
    /\ UNCHANGED <<requests_per_minute, inflight, last, sent, seen, memo>>

NextRL == \E api_key \in Keys, now \in Times : Call(api_key, now)

SpecRL == Init /\ [][NextRL]_vars

\* the same calls on a machine whose clock is never set back
NextMono ==
    \E api_key \in Keys, now \in Times : now >= clock /\ Call(api_key, now)

SpecMono == Init /\ [][NextMono]_vars

(* ------------------------------ requests -------------------------------- *)
Methods == {"POST", "GET"}

RoutesWithoutDetectBugs == {"/generate_component", "/apply_pattern"}

\* setup_routes: the three paths registered with add_post
Routes == {"/generate_component", "/apply_pattern", "/detect_bugs"}
\* the paths requests are sent to
Paths == {"/generate_component", "/apply_pattern", "/detect_bugs",
          "/unknown_path"}

\* request.headers.get('X-API-Key'): None when the header is absent
NoHeader == "None"
\* the header values requests carry: absent, empty, or a key
Headers == {NoHeader, "", "k1"}

\* class ComponentType(Enum): the values of its members
ComponentType == {"button", "form", "card", "dialog", "table"}

\* JSON values of a body's fields, by what the handlers can tell apart
Absent == "<absent>"
JsonStrings == ComponentType \cup {"not_a_type", "text"}
JsonDicts == {"{}", "{a}"}
JsonLists == {"[]"}
JsonNull == "null"

AllFields == {"type", "props", "styles", "accessibility",
              "pattern_type", "context", "constraints", "code"}
NoFields == [n \in AllFields |-> Absent]

\* a request body: `top` is the kind of its top-level JSON value ("invalid"
\* when it is not JSON), `items` the strings for which `s in data` holds on an
\* array or a string, `f` the fields of an object
Object(f) == [top |-> "object", items |-> {}, f |-> f]
NonObject(top, items) == [top |-> top, items |-> items, f |-> NoFields]
NotRead == NonObject("unread", {})

NonObjectBodies ==
    {NonObject("invalid", {}), NonObject("number", {}), NonObject("null", {})}
    \cup {NonObject(t, i) : t \in {"array", "string"},
                            i \in {{}, {"code", "context"}}}

\* a well-formed body of each endpoint, and bodies that differ from it in
\* one field (two for the optional maps)
ComponentBase == [NoFields EXCEPT !.type = "button", !.props = "{}"]
ComponentBodies ==
    {Object(NoFields), Object(ComponentBase)}
    \cup {Object([ComponentBase EXCEPT !.type = t]) :
            t \in {Absent, "table", "not_a_type", JsonNull}}
    \cup {Object([ComponentBase EXCEPT !.props = p]) : p \in {Absent, "text"}}
    \cup {Object([ComponentBase EXCEPT !.styles = o[1],
                                       !.accessibility = o[2]]) :
            o \in {<<"{}", "{a}">>, <<"text", Absent>>, <<JsonNull, JsonNull>>}}

PatternBase == [NoFields EXCEPT !.pattern_type = "text", !.context = "{a}"]
PatternBodies ==
    {Object(NoFields), Object(PatternBase)}
    \cup {Object([PatternBase EXCEPT !.pattern_type = t]) : t \in {Absent, "{}"}}
    \cup {Object([PatternBase EXCEPT !.context = c]) : c \in {Absent, "text"}}
    \cup {Object([PatternBase EXCEPT !.constraints = l]) :
            l \in {"[]", "text", JsonNull}}

BugBodies ==
    {Object([NoFields EXCEPT !.code = c, !.context = x]) :
        c \in {Absent, "text", JsonNull},
        x \in {Absent, "{}", "text"}}

Bodies(path) ==
    NonObjectBodies \cup
    CASE path = "/generate_component" -> ComponentBodies
      [] path = "/apply_pattern" -> PatternBodies
      [] path = "/detect_bugs" -> BugBodies

(* ------------------------------ responses ------------------------------- *)
\* the status code of each aiohttp response class the server raises or returns
StatusCode(cls) ==
    CASE cls = "Response" -> 200
      [] cls = "HTTPBadRequest" -> 400
      [] cls = "HTTPUnauthorized" -> 401
      [] cls = "HTTPForbidden" -> 403
      [] cls = "HTTPNotFound" -> 404
      [] cls = "HTTPMethodNotAllowed" -> 405
      [] cls = "HTTPTooManyRequests" -> 429
      [] cls = "HTTPInternalServerError" -> 500

NoPayload == [kind |-> "none"]

\* raise web.HTTPxxx(reason=...): no JSON body is built
HTTPException(cls, reason, stages) ==
    [cls |-> cls, status |-> StatusCode(cls), reason |-> reason,
     fields |-> {}, payload |-> NoPayload, stages |-> stages]

ReasonIsTheException(stages) ==
    HTTPException("HTTPInternalServerError", "<str(e)>", stages)

\* except Exception: raise web.HTTPInternalServerError(...)
InternalServerError(stages) ==
    HTTPException("HTTPInternalServerError",
                  "Internal server error occurred", stages)

\* json.dumps cannot encode a member of a plain Enum
EnumMembers == {"ComponentType." \o v : v \in ComponentType}
JsonSerializable(payload) ==
    \A n \in DOMAIN payload : payload[n] \notin EnumMembers

\* web.json_response({'status': 'success', field: payload}); dumps() runs when
\* the response is built, inside the handler's try block
json_response(field, payload, stages) ==
    IF JsonSerializable(payload)
    THEN [cls |-> "Response", status |-> StatusCode("Response"),
          reason |-> "OK",
          fields |-> {"status", field}, payload |-> payload,
          stages |-> Append(stages, "Respond")]
    ELSE InternalServerError(Append(stages, "Respond"))

(* ------------------------------ validation ------------------------------ *)
IsDict(v) == v \in JsonDicts
IsStr(v) == v \in JsonStrings
IsListOfStr(v) == v \in JsonLists
\* dict | None = None
IsOptionalDict(v) == v \in JsonDicts \cup {JsonNull, Absent}
AbsentIsEmptyDict(v) == IF v \in {JsonNull, Absent} THEN "{}" ELSE v

OrNone(v) == IF v \in {JsonNull, Absent} THEN "None" ELSE v

AnyStringIsAType(v) == IsStr(v)

\* type: ComponentType
IsComponentType(v) == v \in ComponentType

\* UIComponent(**data): TypeError unless data is a mapping, ValidationError
\* (a ValueError) when a field is missing or of the wrong type
UIComponent(data) ==
    IF data.top # "object" THEN [exc |-> "TypeError", model |-> NoPayload]
    ELSE IF /\ IsComponentType(data.f.type)
            /\ IsDict(data.f.props)
            /\ IsOptionalDict(data.f.styles)
            /\ IsOptionalDict(data.f.accessibility)
    THEN [exc |-> "",
          model |-> [type |-> "ComponentType." \o data.f.type,
                     props |-> data.f.props,
                     styles |-> OrNone(data.f.styles),
                     accessibility |-> OrNone(data.f.accessibility)]]
    ELSE [exc |-> "ValueError", model |-> NoPayload]

\* DesignPattern(**data)
DesignPattern(data) ==
    IF data.top # "object" THEN [exc |-> "TypeError", model |-> NoPayload]
    ELSE IF /\ IsStr(data.f.pattern_type)
            /\ IsDict(data.f.context)
            /\ data.f.constraints = Absent \/ IsListOfStr(data.f.constraints)
    THEN [exc |-> "",
          model |-> [pattern_type |-> data.f.pattern_type,
                     context |-> data.f.context,
                     constraints |-> IF data.f.constraints = Absent
                                     THEN "[]" ELSE data.f.constraints]]
    ELSE [exc |-> "ValueError", model |-> NoPayload]

\* `name in data`: a key of a dict, an element of a list, a substring of a
\* string, a TypeError on anything else
Contains(data, name) ==
    CASE data.top = "object" -> data.f[name] # Absent
      [] data.top \in {"array", "string"} -> name \in data.items
      [] OTHER -> FALSE
Iterable(data) == data.top \in {"object", "array", "string"}

(* ------------------------------- handlers ------------------------------- *)
AdmitBeforeAuthenticate(header, reqs, now, limit) ==
    LET key == IF header = NoHeader THEN "" ELSE header
        r == is_rate_limited(reqs, key, now, limit)
    IN  IF r.limited
        THEN [exc |-> "HTTPTooManyRequests",
              reason |-> "Rate limit exceeded. Please try again later.",
              requests |-> r.requests, stages |-> <<"Admit">>]
        ELSE IF header \in {NoHeader, ""}
        THEN [exc |-> "HTTPUnauthorized", reason |-> "API key required",
              requests |-> r.requests, stages |-> <<"Admit", "Authenticate">>]
        ELSE [exc |-> "", reason |-> "", requests |-> r.requests,
              stages |-> <<"Admit", "Authenticate">>]

OnlyMissingIsUnauthorized(header, reqs, now, limit) ==
    IF header = NoHeader
    THEN [exc |-> "HTTPUnauthorized", reason |-> "API key required",
          requests |-> reqs, stages |-> <<"Authenticate">>]
    ELSE LET r == is_rate_limited(reqs, header, now, limit)
         IN  IF r.limited
             THEN [exc |-> "HTTPTooManyRequests",
                   reason |-> "Rate limit exceeded. Please try again later.",
                   requests |-> r.requests,
                   stages |-> <<"Authenticate", "Admit">>]
             ELSE [exc |-> "", reason |-> "", requests |-> r.requests,
                   stages |-> <<"Authenticate", "Admit">>]

MissingKeyIsForbidden(header, reqs, now, limit) ==
    IF header \in {NoHeader, ""}
    THEN [exc |-> "HTTPForbidden", reason |-> "API key required",
          requests |-> reqs, stages |-> <<"Authenticate">>]
    ELSE LET r == is_rate_limited(reqs, header, now, limit)
         IN  IF r.limited
             THEN [exc |-> "HTTPTooManyRequests",
                   reason |-> "Rate limit exceeded. Please try again later.",
                   requests |-> r.requests,
                   stages |-> <<"Authenticate", "Admit">>]
             ELSE [exc |-> "", reason |-> "", requests |-> r.requests,
                   stages |-> <<"Authenticate", "Admit">>]

\* LovableMCPServer.validate_request: the exception it raises ("" when it
\* returns the key), the limiter's mapping afterwards, the stages it ran
validate_request(header, reqs, now, limit) ==
    IF header \in {NoHeader, ""}
    THEN [exc |-> "HTTPUnauthorized", reason |-> "API key required",
          requests |-> reqs, stages |-> <<"Authenticate">>]
    ELSE LET r == is_rate_limited(reqs, header, now, limit)
         IN  IF r.limited
             THEN [exc |-> "HTTPTooManyRequests",
                   reason |-> "Rate limit exceeded. Please try again later.",
                   requests |-> r.requests,
                   stages |-> <<"Authenticate", "Admit">>]
             ELSE [exc |-> "", reason |-> "", requests |-> r.requests,
                   stages |-> <<"Authenticate", "Admit">>]

NoInnerExcept(body) ==
    IF body.top = "invalid"
    THEN HTTPException("HTTPBadRequest", "Invalid JSON payload", <<"Parse">>)
    ELSE LET component == UIComponent(body)
         IN  IF component.exc # ""
             THEN InternalServerError(<<"Parse", "Validate">>)
             ELSE json_response("component", component.model,
                                <<"Parse", "Validate">>)

\* generate_component after validate_request has returned
generate_component(body) ==
    IF body.top = "invalid"
    THEN HTTPException("HTTPBadRequest", "Invalid JSON payload", <<"Parse">>)
    ELSE LET component == UIComponent(body)
         IN  CASE component.exc = "ValueError" ->
                    HTTPException("HTTPBadRequest",
                                  "Invalid component data: <errors>",
                                  <<"Parse", "Validate">>)
               [] component.exc = "TypeError" ->
                    InternalServerError(<<"Parse", "Validate">>)
               [] OTHER ->
                    json_response("component", component.model,
                                  <<"Parse", "Validate">>)

\* apply_pattern after validate_request has returned
apply_pattern(body) ==
    IF body.top = "invalid"
    THEN HTTPException("HTTPBadRequest", "Invalid JSON payload", <<"Parse">>)
    ELSE LET pattern == DesignPattern(body)
         IN  CASE pattern.exc = "ValueError" ->
                    HTTPException("HTTPBadRequest",
                                  "Invalid pattern data: <errors>",
                                  <<"Parse", "Validate">>)
               [] pattern.exc = "TypeError" ->
                    InternalServerError(<<"Parse", "Validate">>)
               [] OTHER ->
                    json_response("pattern", pattern.model,
                                  <<"Parse", "Validate">>)

\* detect_bugs after validate_request has returned
detect_bugs(body) ==
    IF body.top = "invalid"
    THEN HTTPException("HTTPBadRequest", "Invalid JSON payload", <<"Parse">>)
    ELSE IF ~Iterable(body)
    THEN InternalServerError(<<"Parse", "Validate">>)
    ELSE IF ~Contains(body, "code") \/ ~Contains(body, "context")
    THEN HTTPException("HTTPBadRequest",
                       "Missing required fields: code and context",
                       <<"Parse", "Validate">>)
    ELSE json_response("issues", [issues |-> "[]"], <<"Parse", "Validate">>)

HandlerReadsQuota(path, body) ==
    IF Len(WindowOf(requests, "k1")) >= requests_per_minute
    THEN HTTPException("HTTPBadRequest", "Invalid JSON payload", <<"Parse">>)
    ELSE CASE path = "/generate_component" -> generate_component(body)
           [] path = "/apply_pattern" -> apply_pattern(body)
           [] path = "/detect_bugs" -> detect_bugs(body)

\* the handler add_post registered for the path
Handler(path, body) ==
    CASE path = "/generate_component" -> generate_component(body)
      [] path = "/apply_pattern" -> apply_pattern(body)
      [] path = "/detect_bugs" -> detect_bugs(body)

\* the response together with the request it answers
Reply(resp, method, path, header, body) ==
    [cls |-> resp.cls, status |-> resp.status, reason |-> resp.reason, fields |-> resp.fields,
     payload |-> resp.payload, stages |-> <<"Route">> \o resp.stages,
     method |-> method, path |-> path, header |-> header, body |-> body]

(* -------------------------------- server -------------------------------- *)
\* a request arrives: the router resolves it and the handler runs up to its
\* first suspension, `await request.json()`; validate_request itself never
\* suspends.  The clock the server reads does not go backwards here.  A
\* response waits in `last` until Deliver has written it out, and the next
\* request is taken up after that.
Receive(method, path, header, now) ==
    /\ now >= clock
    /\ last = NoResponse
    /\ IF path \notin Routes \/ method # "POST"
       THEN /\ last' = Reply(IF path \notin Routes
                             THEN HTTPException("HTTPNotFound",
                                                "Not Found", <<>>)
                             ELSE HTTPException("HTTPMethodNotAllowed",
                                                "Method Not Allowed", <<>>),
                             method, path, header, NotRead)
            /\ UNCHANGED <<requests, clock, inflight>>
       ELSE LET v == validate_request(header, requests, now,
                                      requests_per_minute)
            IN  /\ requests' = v.requests
                /\ clock' = IF "Admit" \in {v.stages[i] : i \in 1..Len(v.stages)}
                            THEN now ELSE clock
                /\ IF v.exc # ""
                   THEN /\ last' = Reply(HTTPException(v.exc, v.reason,
                                                       v.stages),
                                         method, path, header, NotRead)
                        /\ UNCHANGED inflight
                   ELSE /\ BagCardinality(inflight) < MaxInflight
                        /\ inflight' = inflight (+)
                               SetToBag({[path |-> path, api_key |-> header,
                                          admitted_at |-> now,
                                          stages |-> v.stages]})
                        /\ UNCHANGED last
    /\ UNCHANGED <<requests_per_minute, log>>

ResumeRollsBack(r, body) ==
    /\ BagIn(r, inflight)
    /\ last = NoResponse
    /\ inflight' = inflight (-) SetToBag({r})
    /\ LET resp == Handler(r.path, body)
       IN  /\ last' = Reply([resp EXCEPT !.stages = r.stages \o @],
                            "POST", r.path, r.api_key, body)
           /\ requests' =
                  IF resp.status >= 400
                  THEN [requests EXCEPT ![r.api_key] =
                           SelectSeq(@, LAMBDA t : t # r.admitted_at)]
                  ELSE requests
    /\ UNCHANGED <<requests_per_minute, clock, log>>

\* request.json() returns or raises and the handler runs to its end
Resume(r, body) ==
    /\ BagIn(r, inflight)
    /\ last = NoResponse
    /\ inflight' = inflight (-) SetToBag({r})
    /\ LET resp == Handler(r.path, body)
       IN  last' = Reply([resp EXCEPT !.stages = r.stages \o @],
                         "POST", r.path, r.api_key, body)
    /\ UNCHANGED <<requests_per_minute, requests, clock, log>>

\* the client disconnects while the handler waits in `await request.json()`:
\* CancelledError is raised there, which neither except clause catches, and
\* no response is written
Cancel(r) ==
    /\ BagIn(r, inflight)
    /\ last = NoResponse
    /\ inflight' = inflight (-) SetToBag({r})
    /\ UNCHANGED <<requests_per_minute, requests, clock, log, last>>

\* the response is written to the client
Deliver ==
    /\ last # NoResponse
    /\ last' = NoResponse
    /\ UNCHANGED <<requests_per_minute, requests, clock, log, inflight>>

Next ==
    \/ /\ \E method \in Methods, path \in Paths, header \in Headers,
             now \in Times : Receive(method, path, header, now)
       /\ UNCHANGED <<sent, seen, memo>>
    \/ /\ \E r \in BagToSet(inflight) :
             \E body \in Bodies(r.path) : Resume(r, body)
       /\ UNCHANGED <<sent, seen, memo>>
    \/ /\ \E r \in BagToSet(inflight) : Cancel(r)
       /\ UNCHANGED <<sent, seen, memo>>
    \/ /\ Deliver
       /\ UNCHANGED <<sent, seen, memo>>

Spec == Init /\ [][Next]_vars

(* ------------- the rate limiting tests against a default server ---------- *)
\* RateLimiter.__init__: requests_per_minute of a server built without
\* arguments
DefaultRequestsPerMinute == 60

\* burst_size of test_rate_limiting_effectiveness
BurstSize == 100

\* the readings of time.time() while a burst lasts: the requests of a test
\* are sent within about a second
BurstTimes == {0, 1}

\* LovableMCPServer(): self.rate_limiter = RateLimiter()
InitBurst ==
    /\ requests_per_minute = DefaultRequestsPerMinute
    /\ requests = [k \in {} |-> <<>>]
    /\ clock = 0
    /\ log = <<>>
    /\ inflight = EmptyBag
    /\ last = NoResponse
    /\ sent = 0
    /\ seen = {}
    /\ memo = NoResponse

\* responses.append(response.status) / status_counts[status] += 1
Collect ==
    seen' = IF last = NoResponse /\ last' # NoResponse
            THEN seen \cup {last'.status} ELSE seen

\* test_client.post('/generate_component', headers={'X-API-Key': 'test_key'},
\*                  json={'type': 'button', 'props': {}}) reaches the server
Post(now) ==
    /\ sent < BurstSize
    /\ Receive("POST", "/generate_component", "k1", now)
    /\ sent' = sent + 1
    /\ Collect
    /\ UNCHANGED memo

\* the server reads the body of one of the posted requests and answers it
Answer(r) ==
    /\ Resume(r, Object(ComponentBase))
    /\ Collect
    /\ UNCHANGED <<sent, memo>>

NextBurst ==
    \/ \E now \in BurstTimes : Post(now)
    \/ \E r \in BagToSet(inflight) : Answer(r)
    \/ Deliver /\ UNCHANGED <<sent, seen, memo>>

SpecBurst == InitBurst /\ [][NextBurst]_vars

(* ------------- a client that compares two responses of the server -------- *)
\* data = await response.json(): the client keeps the response it has just
\* got, with the time the server read last
Keep ==
    /\ last # NoResponse
    /\ last.body # NotRead
    /\ memo = NoResponse
    /\ memo' = [response |-> last, at |-> clock]
    /\ UNCHANGED <<requests_per_minute, requests, clock, log, inflight, last,
                   sent, seen>>

\* the client posts with its key to one endpoint at a time, one request
\* after the other, at the start of a window or as the window ends
NextVal ==
    \/ /\ inflight = EmptyBag
       /\ \E path \in Routes, now \in Epochs :
             Receive("POST", path, "k1", now)
       /\ UNCHANGED <<sent, seen, memo>>
    \/ /\ \E r \in BagToSet(inflight) :
             \E body \in Bodies(r.path) : Resume(r, body)
       /\ UNCHANGED <<sent, seen, memo>>
    \/ /\ Deliver
       /\ UNCHANGED <<sent, seen, memo>>
    \/ Keep

SpecVal == Init /\ [][NextVal]_vars

(* ------------------------- claims: RateLimiter -------------------------- *)
\* the logged calls of one key, in call order
KeyCalls(k) == SelectSeq(log, LAMBDA e : e.key = k)

\* the first n calls of a key's history all lie in one span shorter than 60 s
InOneSpan(c, n) == \A i, j \in 1..n : c[i].now - c[j].now < Window

\* C1: from a key with no history, the first L calls whose timestamps lie in
\* one span shorter than 60 s are admitted and the (L+1)-th is limited.
C1_FirstLAdmittedThenLimited ==
    \A k \in Keys :
        LET c == KeyCalls(k)
        IN  \A n \in 1..Len(c) :
                InOneSpan(c, n) =>
                    /\ (n <= requests_per_minute => ~c[n].limited)
                    /\ (n = requests_per_minute + 1 => c[n].limited)

C1_Witness ==
    \E k \in Keys :
        LET c == KeyCalls(k)
            n == requests_per_minute + 1
        IN  /\ requests_per_minute >= 2
            /\ Len(c) >= n
            /\ InOneSpan(c, n)
            /\ \A i \in 1..(n - 1) : ~c[i].limited
            /\ c[n].limited

\* some timestamp recorded for the call's key is more than 60 s old
OldestExpired(e) == \E j \in 1..Len(e.before) : e.before[j] < e.now - Window

\* C3: once the oldest recorded timestamp of a key is more than 60 s old, the
\* next call for the key is admitted, whatever was rejected in between.
C3_Recovers ==
    \A i \in 1..Len(log) : OldestExpired(log[i]) => ~log[i].limited

C3_Witness ==
    \E i, j \in 1..Len(log) :
        /\ i < j
        /\ log[i].key = log[j].key
        /\ log[i].limited
        /\ OldestExpired(log[j])
        /\ ~log[j].limited

\* the number of timestamps of w inside the trailing window of `now`
InWindow(w, now) == Cardinality({i \in 1..Len(w) : w[i] > now - Window})

\* C4: a call for one key leaves every other key's window (and presence in
\* the mapping) unchanged, and its outcome is decided by the key's own
\* window and the current time alone.
C4_KeysIndependent ==
    [][log' # log =>
        LET e == log'[Len(log')]
        IN  /\ \A k2 \in Keys \ {e.key} :
                    /\ (k2 \in DOMAIN requests') = (k2 \in DOMAIN requests)
                    /\ WindowOf(requests', k2) = WindowOf(requests, k2)
            /\ e.limited =
                    (InWindow(WindowOf(requests, e.key), e.now)
                        >= requests_per_minute)]_vars

\* key k1 is limited and, within the same window, key k2 is still admitted
C4_Witness ==
    \E i, j \in 1..Len(log) :
        /\ i < j
        /\ log[i].key # log[j].key
        /\ log[i].limited
        /\ ~log[j].limited
        /\ log[j].now - log[i].now < Window
        /\ log[i].now - log[j].now < Window
        /\ log[i].key \in DOMAIN requests
        /\ Len(requests[log[i].key]) = requests_per_minute

(* --------------------------- claims: server ----------------------------- *)
\* the in-flight requests of key k admitted in the window (T - 60, T]
AdmittedIn(k, T) ==
    LET rs == {r \in DOMAIN inflight :
                 /\ r.api_key = k
                 /\ r.admitted_at > T - Window
                 /\ r.admitted_at <= T}
    IN  BagCardinality([r \in rs |-> inflight[r]])

\* the in-flight requests of key k admitted at time t
AdmittedAt(k, t) ==
    LET rs == {r \in DOMAIN inflight : r.api_key = k /\ r.admitted_at = t}
    IN  BagCardinality([r \in rs |-> inflight[r]])

\* how often timestamp t is recorded in the window of key k
Recorded(k, t) ==
    Cardinality({i \in 1..Len(WindowOf(requests, k)) :
                   WindowOf(requests, k)[i] = t})

\* C2: among the requests of one key that are in flight at the same time, at
\* most L were admitted within any one 60-second window of the
\* (non-decreasing) clock, and no admission still inside the trailing window
\* has been lost from the key's record by another request's admission step.
C2_ConcurrentAdmissionsBounded ==
    \A k \in Keys :
        /\ \A T \in Times : AdmittedIn(k, T) <= requests_per_minute
        /\ \A t \in Times :
              t > clock - Window =>
                  AdmittedAt(k, t) <= Recorded(k, t)

\* as many requests of one key as the limit allows are in flight, admitted in
\* the current window, and one more request of that key has been limited
C2_Witness ==
    /\ last # NoResponse
    /\ last.status = 429
    /\ requests_per_minute = MaxInflight
    /\ AdmittedIn(last.header, clock) = requests_per_minute

\* the step sends a response
Responds == last = NoResponse /\ last' # NoResponse

\* C5: a request to one of the three endpoints (POST routes) whose X-API-Key
\* header is missing or empty is answered 401 'API key required'; the rate
\* limiter is not consulted, its state is unchanged, and the body is not read.
C5_MissingKeyUnauthorized ==
    [][(/\ Responds
        /\ last'.method = "POST"
        /\ last'.path \in Routes
        /\ last'.header \in {NoHeader, ""})
       => /\ last'.status = 401
          /\ last'.reason = "API key required"
          /\ requests' = requests
          /\ clock' = clock
          /\ last'.body = NotRead
          /\ inflight' = inflight]_vars

C5_Witness ==
    /\ last # NoResponse
    /\ last.status = 401
    /\ last.header = ""
    /\ last.path = "/detect_bugs"
    /\ "k1" \in DOMAIN requests

StageOrder ==
    <<"Route", "Authenticate", "Admit", "Parse", "Validate", "Respond">>
IsPrefix(a, b) == Len(a) <= Len(b) /\ \A i \in 1..Len(a) : a[i] = b[i]
Routed(r) == r.path \in Routes /\ r.method = "POST"

WellFormed(path, body) ==
    /\ body.top = "object"
    /\ CASE path = "/generate_component" ->
              /\ body.f.type \in {"button", "form", "card", "dialog", "table"}
              /\ body.f.props \in JsonDicts
              /\ body.f.styles \in JsonDicts \cup {Absent, JsonNull}
              /\ body.f.accessibility \in JsonDicts \cup {Absent, JsonNull}
         [] path = "/apply_pattern" ->
              /\ body.f.pattern_type \in JsonStrings
              /\ body.f.context \in JsonDicts
              /\ body.f.constraints \in JsonLists \cup {Absent}
         [] path = "/detect_bugs" ->
              /\ body.f.code \in JsonStrings
              /\ body.f.context \in JsonDicts

\* C8: for an authenticated, admitted request on any of the three endpoints,
\* every body that is not well-formed is rejected with 400 and every
\* well-formed body passes validation.
C8_ValidationTotal ==
    (last # NoResponse /\ last.body # NotRead) =>
        IF WellFormed(last.path, last.body)
        THEN last.status # 400
        ELSE last.status = 400

\* the body of the last request is an object whose type is not in the enum
TypeOutsideEnum ==
    /\ last # NoResponse
    /\ last.path = "/generate_component"
    /\ last.body.top = "object"
    /\ last.body.f.type \notin ComponentType \cup {Absent}

BodyRead == last # NoResponse /\ last.body # NotRead

\* the envelope field of each endpoint
EnvelopeField(path) ==
    CASE path = "/generate_component" -> "component"
      [] path = "/apply_pattern" -> "pattern"
      [] path = "/detect_bugs" -> "issues"

\* C11: a request with a non-empty key, under its limit, with a well-formed
\* body ends Completed, 200, with the envelope {status, <field>}, <field>
\* being component, pattern or issues; the component of a generate_component
\* response carries the requested type.
C11_WellFormedCompletes ==
    (BodyRead /\ WellFormed(last.path, last.body)) =>
        /\ last.status = 200
        /\ last.fields = {"status", EnvelopeField(last.path)}
        /\ last.path = "/generate_component" =>
               last.payload.type = last.body.f.type

\* C12: the component of a successful /generate_component response is the
\* generator's result and has a 'code' field besides 'type', for every valid
\* component request.
C12_ComponentHasCode ==
    (BodyRead /\ last.path = "/generate_component"
              /\ WellFormed(last.path, last.body)) =>
        /\ last.status = 200
        /\ "component" \in last.fields
        /\ {"code", "type"} \subseteq DOMAIN last.payload

\* the handler of the path raises an exception that is no HTTP exception:
\* `**data` or `in` on a JSON value that does not support it, or json.dumps on
\* the validated component
RaisesInHandler(path, body) ==
    \/ path \in {"/generate_component", "/apply_pattern"}
           /\ body.top \in {"number", "null", "array", "string"}
    \/ path = "/detect_bugs" /\ body.top \in {"number", "null"}
    \/ path = "/generate_component" /\ WellFormed(path, body)

C14_ErrorBodyHasReason ==
    (last # NoResponse /\ last.status >= 400) => "reason" \in last.fields

LaterThan(w, cut) == {j \in 1..Len(w) : w[j] > cut}

\* the i-th of these positions, counted from the front of w
NthLater(w, cut, i) ==
    CHOOSE j \in LaterThan(w, cut) :
        Cardinality({h \in LaterThan(w, cut) : h <= j}) = i

\* the timestamps of w later than cut, in the order they have in w
Later(w, cut) ==
    [i \in 1..Cardinality(LaterThan(w, cut)) |-> w[NthLater(w, cut, i)]]

\* C18: a timestamp of age exactly 60 is pruned: it is not in the window a
\* call at t + 60 leaves, and a key whose quota was filled at time t is
\* admitted again by a call at exactly t + 60.
C18_BoundaryPruned ==
    \A i \in 1..Len(log) :
        LET e == log[i]
        IN  /\ \A j \in 1..Len(e.after) : e.after[j] # e.now - Window
            /\ (\A j \in 1..Len(e.before) : e.before[j] = e.now - Window)
                   => ~e.limited /\ e.after = <<e.now>>

C18_Witness ==
    \E i \in 1..Len(log) :
        /\ Len(log[i].before) = requests_per_minute
        /\ \A j \in 1..Len(log[i].before) :
               log[i].before[j] = log[i].now - Window
        /\ ~log[i].limited
        /\ log[i].after = <<log[i].now>>

\* C19 as stated: the prune step removes exactly the timestamps strictly
\* older than now - 60 (t < now - 60) and keeps every other one, in order.
C19_RemovesStrictlyOlder ==
    \A i \in 1..Len(log) :
        LET e == log[i]
            kept == Later(e.before, e.now - Window - 1)
        IN  SubSeq(e.after, 1, Len(kept)) = kept

\* C19: the prune step removes exactly the timestamps with t <= now - 60
\* (age 60 or more) and keeps every timestamp with t > now - 60, in the order
\* they had.
C19_RemovesAtLeastWindowOld ==
    \A i \in 1..Len(log) :
        LET e == log[i]
            kept == Later(e.before, e.now - Window)
        IN  /\ Len(e.after) >= Len(kept)
            /\ SubSeq(e.after, 1, Len(kept)) = kept
            /\ \A j \in 1..Len(e.after) : e.after[j] > e.now - Window

C19_Witness ==
    \E i \in 1..Len(log) :
        LET e == log[i]
        IN  /\ Len(e.before) = 2
            /\ e.before[1] = e.now - Window
            /\ e.before[2] > e.now - Window
            /\ e.before[2] < e.now
            /\ e.after[1] = e.before[2]

\* C20: a limited call does not record itself: the key's window after it is
\* the pruned window; an admitted call leaves the pruned window with exactly
\* its own timestamp appended at the end.
C20_OnlyAdmittedRecorded ==
    \A i \in 1..Len(log) :
        LET e == log[i]
            pruned == Later(e.before, e.now - Window)
        IN  IF e.limited
            THEN e.after = pruned
            ELSE /\ Len(e.after) = Len(pruned) + 1
                 /\ e.after[Len(e.after)] = e.now
                 /\ SubSeq(e.after, 1, Len(pruned)) = pruned

C20_Witness ==
    \E i, j \in 1..Len(log) :
        /\ log[i].limited
        /\ log[i].after # <<>>
        /\ log[i].after[Len(log[i].after)] < log[i].now
        /\ ~log[j].limited
        /\ Len(log[j].after) = 2
        /\ log[j].after[1] < log[j].now

C17_BothOutcomes ==
    (sent = BurstSize /\ inflight = EmptyBag) => {200, 429} \subseteq seen

\* C21: in every reachable state the recorded window of every key is at most
\* requests_per_minute long, whatever calls were admitted or limited before
\* and whatever the clock returned, readings below earlier ones included.
C21_WindowWithinLimit ==
    \A k \in DOMAIN requests : Len(requests[k]) <= requests_per_minute

\* a limited call on a full window, made after the clock has stepped back
C21_Witness ==
    \E i, j \in 1..Len(log) :
        /\ j < i
        /\ log[j].now > log[i].now
        /\ log[i].limited
        /\ log[i].key \in DOMAIN requests
        /\ Len(requests[log[i].key]) = requests_per_minute
        /\ requests_per_minute = MaxLimit

\* no timestamp of w is below the one before it
Ascending(w) == \A i \in 1..(Len(w) - 1) : w[i] <= w[i + 1]

\* C22: every key's window is in ascending timestamp order, and right after a
\* call of is_rate_limited(k) every timestamp t of k's window is in the
\* trailing window, now - 60 < t <= now, for the readings of time.time().
C22_AscendingInTrailingWindow ==
    /\ \A k \in DOMAIN requests : Ascending(requests[k])
    /\ \A i \in 1..Len(log) :
          \A j \in 1..Len(log[i].after) :
              /\ log[i].after[j] > log[i].now - Window
              /\ log[i].after[j] <= log[i].now

\* C23: the timestamp an admitted request recorded is not rolled back by what
\* happens later in that request: the step that ends it, with 200, 400 or
\* 500 or by cancellation, leaves every window as it is, and a step changes
\* a window only by dropping the timestamps aged 60 or more and appending.
C23_AdmissionNotRolledBack ==
    [][/\ BagCardinality(inflight') < BagCardinality(inflight)
             => requests' = requests
       /\ \A k \in DOMAIN requests :
             /\ k \in DOMAIN requests'
             /\ \/ requests'[k] = requests[k]
                \/ IsPrefix(Later(requests[k], clock' - Window),
                            requests'[k])
      ]_vars

\* the only request admitted under a limit of 1 sent invalid JSON, was
\* answered 400, and still holds the key's one slot
C23_Witness ==
    /\ last # NoResponse
    /\ last.status = 400
    /\ last.body.top = "invalid"
    /\ inflight = EmptyBag
    /\ requests_per_minute = 1
    /\ last.header \in DOMAIN requests
    /\ requests[last.header] = <<clock>>

\* C24: a validated request's success envelope carries the result of the
\* collaborator of its endpoint, invoked once with the validated payload:
\* ComponentGenerator's {code, type, ...}, PatternImplementer's
\* {implementation, pattern_type, framework}, BugDetector's list of issues.
C24_EnvelopeCarriesCollaboratorResult ==
    (BodyRead /\ last.status = 200) =>
        CASE last.path = "/generate_component" ->
                 {"code", "type"} \subseteq DOMAIN last.payload
          [] last.path = "/apply_pattern" ->
                 {"implementation", "pattern_type", "framework"}
                     \subseteq DOMAIN last.payload
          [] last.path = "/detect_bugs" ->
                 "issues" \in DOMAIN last.payload

\* C25: the set of tracked keys only grows: every key the limiter has been
\* consulted for, admitted or limited, is in the mapping for good, also when
\* all its timestamps have expired; no call removes a key.
C25_TrackedKeysOnlyGrow ==
    [][/\ DOMAIN requests \subseteq DOMAIN requests'
       /\ \A i \in 1..Len(log') :
             /\ log'[i].key \in DOMAIN requests'
             /\ log'[i].tracked \subseteq DOMAIN requests'
      ]_vars

\* both keys are tracked, and every timestamp of one of them has expired at
\* the latest call, which was for the other key
C25_Witness ==
    /\ DOMAIN requests = Keys
    /\ Len(log) >= 2
    /\ \E k \in Keys :
          /\ k # log[Len(log)].key
          /\ \A j \in 1..Len(requests[k]) :
                requests[k][j] <= log[Len(log)].now - Window

\* C26: in every state, whatever was requested before, a pattern body that
\* omits constraints is accepted with constraints the empty list, and a
\* component body that omits styles or accessibility is accepted with that
\* field None, while a present empty map stays an empty map.
C26_ValidationDefaults ==
    (BodyRead /\ WellFormed(last.path, last.body)) =>
        /\ (last.path = "/apply_pattern"
                /\ last.body.f.constraints = Absent) =>
              /\ last.status = 200
              /\ last.payload.constraints = "[]"
        /\ last.path = "/generate_component" =>
              /\ last.status # 400
              /\ UIComponent(last.body).exc = ""
              /\ \A o \in {"styles", "accessibility"} :
                    LET given == last.body.f[o]
                        got == UIComponent(last.body).model[o]
                    IN  /\ given = Absent => got = "None"
                        /\ given = "{}" => got = "{}"
                        /\ got = "None" => given \in {Absent, JsonNull}

C26_Witness ==
    /\ BodyRead
    /\ last.path = "/apply_pattern"
    /\ last.body.f.constraints = Absent
    /\ last.status = 200
    /\ last.payload.constraints = "[]"
    /\ last.header \in DOMAIN requests
    /\ Len(requests[last.header]) >= 2

AdmittedWithin(k, T) ==
    {i \in 1..Len(log) : /\ log[i].key = k
                         /\ ~log[i].limited
                         /\ log[i].now > T - Window
                         /\ log[i].now <= T}

\* C28: with a non-decreasing clock, for every key and every time T at most
\* L calls of the key were admitted with a timestamp in the half-open
\* interval (T - 60, T]; the closed interval [T - 60, T] may hold one more.
C28_SlidingWindowBound ==
    \A k \in Keys, T \in Times :
        Cardinality(AdmittedWithin(k, T)) <= requests_per_minute

\* under a limit of 1, a call admitted at t and another admitted at t + 60
C28_Witness ==
    /\ requests_per_minute = 1
    /\ \E i, j \in 1..Len(log) :
          /\ log[i].key = log[j].key
          /\ ~log[i].limited
          /\ ~log[j].limited
          /\ log[j].now = log[i].now + Window

====
